---- MODULE Spec2Model ----
(***************************************************************************)
(* The four vocabulary scripts of the repository as state machines:        *)
(*   convert_csv_to_json.py  (csv_to_json, merge_json_files)               *)
(*   download_vocabulary.py  (download_and_convert, main)                  *)
(*   add_translations.py     (translate_vocabulary_file)                   *)
(*   update_first_words.py   (module body)                                 *)
(* Each script is a separate process over files on disk; a specification   *)
(* per script starts it on every input of a bounded set.                   *)
(*                                                                         *)
(* Strings on which the code calls strip() are sequences of Unicode code    *)
(* points (32 is the space, 9 the tab, 12288 the ideographic space, 97 the *)
(* letter a); the language codes, which the code splits at '-', and the    *)
(* meanings handed to the translator are sequences of one-character        *)
(* strings; strings the code only compares or copies are TLA+ strings.     *)
(***************************************************************************)
EXTENDS Integers, Sequences, FiniteSets, TLC

VARIABLES
    pc,          \* position of the running script
    \* ---- csv_to_json
    csvFile,     \* the input CSV: absent, empty, or fieldnames + rows
    jsonFile,    \* the output JSON file of csv_to_json
    jsonBefore,  \* that file when csv_to_json was called
    convVocab,   \* local `vocabulary`
    convIdx,     \* number of rows the reader has yielded
    convRet,     \* return value of csv_to_json ("none" before it returns)
    \* ---- merge_json_files
    mergeIn,     \* the files of json_files the loop has opened, as it found them
    mergeOut,    \* output_file
    mergeAll,    \* local `all_vocabulary`
    mergeSeen,   \* local `seen_words`
    mergeLen,    \* len(json_files)
    \* ---- download_vocabulary.py
    lvlFiles,    \* vocabulary/<level>.json for each level
    lvlBefore,   \* those files as they were when the run started
    lvlIdx,      \* number of levels main() has processed
    attempted,   \* the levels download_and_convert was called for, in order
    counts,      \* the value each call returned
    obtained,    \* per call: whether it succeeded and the entries it built
    totalWords,  \* main's total_words
    \* ---- add_translations.py
    disk,        \* path -> file, for the translator's input and output paths
    inPath,      \* input_file of the current run
    outPath,     \* output_file of the current run (after the None default)
    calls,       \* the translate() calls of the run: <<entry number, dest>>
    raised,      \* those of them whose exception the running process caught
    vocab,       \* local `vocabulary`
    entIdx,      \* index of the entry the loop is at (0 before the loop)
    langIdx,     \* number of languages tried for the current entry
    meaningsAcc, \* local `meanings` of the current entry
    run,         \* 1 for the first run, 2 for a second run on its output
    readSnap,    \* what the current run read from input_file
    destBefore,  \* the destination file when the current run started
    firstResult, \* the destination file after the first run's write
    \* ---- update_first_words.py
    sampleFile,  \* vocabulary/N5_sample.json
    n5File,      \* vocabulary/N5.json
    n5Before,    \* vocabulary/N5.json when the run started
    mlMap,       \* multilingual_map
    n5Vocab,     \* n5_vocab
    patchIdx,    \* number of entries of n5_vocab the loop has visited
    updatedCount \* updated_count

convVars  == <<csvFile, jsonFile, jsonBefore, convVocab, convIdx, convRet>>
mergeVars == <<mergeIn, mergeOut, mergeAll, mergeSeen, mergeLen>>
fetchVars == <<lvlFiles, lvlBefore, lvlIdx, attempted, counts, obtained, totalWords>>
transVars == <<disk, inPath, outPath, calls, raised, vocab, entIdx, langIdx, meaningsAcc,
               run, readSnap, destBefore, firstResult>>
patchVars == <<sampleFile, n5File, n5Before, mlMap, n5Vocab, patchIdx, updatedCount>>
vars == <<pc, convVars, mergeVars, fetchVars, transVars, patchVars>>

(* The scripts are separate processes: a step of one leaves the others' state. *)
notConv  == <<mergeVars, fetchVars, transVars, patchVars>>
notMerge == <<convVars, fetchVars, transVars, patchVars>>
notFetch == <<convVars, mergeVars, transVars, patchVars>>
notTrans == <<convVars, mergeVars, fetchVars, patchVars>>
notPatch == <<convVars, mergeVars, fetchVars, transVars>>

----------------------------------------------------------------------------
(* Bounds of the model. *)
MaxRows    == 2   \* rows of a CSV
MaxFiles   == 2   \* files handed to merge_json_files
MaxEntries == 2   \* entries of a JSON dataset
MaxRaises  == 2   \* translate() calls that raise in one run

SeqsUpTo(S, n) == UNION {[1..k -> S] : k \in 0..n}

(* Files on disk. *)
Absent       == [kind |-> "absent", data |-> <<>>]
Unreadable   == [kind |-> "invalid", data |-> <<>>]
JsonFile(d)  == [kind |-> "json", data |-> d]

(* A file opened with mode 'w' and not yet (completely) dumped: it holds no *)
(* bytes, or the beginning of a JSON text; json.load rejects it.           *)
Truncated    == [kind |-> "truncated", data |-> <<>>]

(* Python's None, where a string is expected: no code point is negative. *)
None == <<-1>>

----------------------------------------------------------------------------
(* The characters str.strip() removes: those for which str.isspace() holds *)
(* (tab, LF, VT, FF, CR, FS..US, space, NEL, NBSP, the Unicode space        *)
(* separators, the line and paragraph separators, the ideographic space).  *)
Whitespace ==
    (9..13) \cup (28..32) \cup {133, 160, 5760} \cup (8192..8202)
    \cup {8232, 8233, 8239, 8287, 12288}

(* str.strip(): leading and trailing whitespace removed. *)
RECURSIVE LStrip(_)
LStrip(s) == IF s # <<>> /\ Head(s) \in Whitespace THEN LStrip(Tail(s)) ELSE s

RECURSIVE RStrip(_)
RStrip(s) ==
    IF s # <<>> /\ s[Len(s)] \in Whitespace THEN RStrip(SubSeq(s, 1, Len(s) - 1)) ELSE s

Strip(s) == RStrip(LStrip(s))

(* Python truthiness of a str-or-None value: `not v` holds for None and "". *)
Falsy(v) == v = None \/ v = <<>>

----------------------------------------------------------------------------
(* A dataset left on disk by an earlier run. *)
OldEntry == [word |-> <<111>>, reading |-> <<111>>, meaning |-> <<111>>]
OldFile  == JsonFile(<<OldEntry>>)

----------------------------------------------------------------------------
(*                      convert_csv_to_json.csv_to_json                    *)

RequiredColumns == {"word", "reading", "meaning"}

(* Rows csv.DictReader can yield under the header word,reading,meaning:   *)
(*   every field padded with whitespace (tab, space, ideographic space),   *)
(*   an empty word,                                                        *)
(*   a word of one space, a reading of one tab, a meaning of a space and   *)
(*   an ideographic space,                                                 *)
(*   a row shorter than the header (the missing fields are None).          *)
ConvRowPool ==
    {[word |-> <<9, 97, 32>>, reading |-> <<97, 12288>>, meaning |-> <<32, 97>>],
     [word |-> <<>>, reading |-> <<97>>, meaning |-> <<97>>],
     [word |-> <<32>>, reading |-> <<97>>, meaning |-> <<97>>],
     [word |-> <<97>>, reading |-> <<9>>, meaning |-> <<97>>],
     [word |-> <<97>>, reading |-> <<97>>, meaning |-> <<32, 12288>>],
     [word |-> <<97>>, reading |-> None, meaning |-> None]}

(* A row of the pool under a header that has only the columns F. *)
RowUnder(F, row) == [col \in F |-> row[col]]

(* The CSV files csv_to_json is started on: no file, an empty file, or a   *)
(* header with some of the three columns and rows under it.                *)
CsvInputs ==
    {[kind |-> "absent", fieldnames |-> {}, rows |-> <<>>],
     [kind |-> "empty", fieldnames |-> {}, rows |-> <<>>]}
    \cup UNION {{[kind |-> "csv", fieldnames |-> F, rows |-> r] :
                    r \in SeqsUpTo({RowUnder(F, row) : row \in ConvRowPool}, MaxRows)} :
                F \in SUBSET RequiredColumns}

(* all(col in reader.fieldnames for col in [...]) *)
\* Faulty variant: any() in place of all().
ColumnsOkAny(fieldnames) == \E col \in RequiredColumns : col \in fieldnames
ColumnsOk(fieldnames) == \A col \in RequiredColumns : col \in fieldnames

(* not row['word'] or not row['reading'] or not row['meaning'] *)
RowSkipped(row) == Falsy(row["word"]) \/ Falsy(row["reading"]) \/ Falsy(row["meaning"])

ConvEntry(row) ==
    [word |-> Strip(row["word"]), reading |-> Strip(row["reading"]),
     meaning |-> Strip(row["meaning"])]

ConvIdle ==
    /\ csvFile = [kind |-> "absent", fieldnames |-> {}, rows |-> <<>>]
    /\ jsonFile = Absent
    /\ jsonBefore = Absent
    /\ convVocab = <<>>
    /\ convIdx = 0
    /\ convRet = "none"

(* open(csv_file) raises FileNotFoundError: caught, return False. *)
ConvFileNotFound ==
    /\ pc = "conv_open"
    /\ csvFile.kind = "absent"
    /\ convRet' = "False"
    /\ pc' = "conv_done"
    /\ UNCHANGED <<csvFile, jsonFile, jsonBefore, convVocab, convIdx>>
    /\ UNCHANGED notConv

(* The column check fails (an empty file has fieldnames None, and the      *)
(* membership test raises TypeError, caught by `except Exception`).        *)
ConvBadHeader ==
    /\ pc = "conv_open"
    /\ \/ csvFile.kind = "empty"
       \/ csvFile.kind = "csv" /\ ~ColumnsOk(csvFile.fieldnames)
    /\ convRet' = "False"
    /\ pc' = "conv_done"
    /\ UNCHANGED <<csvFile, jsonFile, jsonBefore, convVocab, convIdx>>
    /\ UNCHANGED notConv

ConvHeaderOk ==
    /\ pc = "conv_open"
    /\ csvFile.kind = "csv" /\ ColumnsOk(csvFile.fieldnames)
    /\ pc' = "conv_rows"
    /\ UNCHANGED convVars
    /\ UNCHANGED notConv

(* One iteration of `for row in reader`. A row without one of the keys     *)
(* raises KeyError, caught by `except Exception`.                          *)
ConvRow ==
    /\ pc = "conv_rows"
    /\ convIdx < Len(csvFile.rows)
    /\ LET row == csvFile.rows[convIdx + 1] IN
        IF ~(RequiredColumns \subseteq DOMAIN row)
        THEN /\ convRet' = "False"
             /\ pc' = "conv_done"
             /\ UNCHANGED <<convVocab, convIdx>>
        ELSE /\ convVocab' = IF RowSkipped(row) THEN convVocab
                             ELSE Append(convVocab, ConvEntry(row))
             /\ convIdx' = convIdx + 1
             /\ UNCHANGED <<convRet, pc>>
    /\ UNCHANGED <<csvFile, jsonFile, jsonBefore>>
    /\ UNCHANGED notConv

(* open(json_file, 'w'); json.dump(vocabulary); return True *)
ConvWrite ==
    /\ pc = "conv_rows"
    /\ convIdx = Len(csvFile.rows)
    /\ jsonFile' = JsonFile(convVocab)
    /\ convRet' = "True"
    /\ pc' = "conv_done"
    /\ UNCHANGED <<csvFile, jsonBefore, convVocab, convIdx>>
    /\ UNCHANGED notConv

----------------------------------------------------------------------------
(*                   convert_csv_to_json.merge_json_files                  *)

(* A JSON array or object as the value of 'word': it cannot be hashed. *)
UnhashableWord == "<unhashable>"

(* Elements of the lists handed to merge: two entries share a word and     *)
(* differ in their meaning, and one element has no 'word'.                 *)
MergeEntryPool ==
    {[word |-> "neko", reading |-> "r", meaning |-> "cat"],
     [word |-> "neko", reading |-> "r", meaning |-> "kitty"],
     [word |-> "inu", reading |-> "r", meaning |-> "dog"],
     [reading |-> "r", meaning |-> "x"]}

(* A file of json_files: one json.load cannot read, or a list. *)
MergeFiles == {Unreadable} \cup {JsonFile(d) : d \in SeqsUpTo(MergeEntryPool, MaxEntries)}

(* word_key = word['word'] raises (KeyError: no such key; an element that  *)
(* is no object raises TypeError), or `word_key not in seen_words` raises  *)
(* (TypeError: unhashable).                                                *)
EntryRaises(word) ==
    IF "word" \notin DOMAIN word THEN TRUE ELSE word.word = UnhashableWord

(* One iteration of `for word in vocabulary`, on acc = (all_vocabulary,    *)
(* seen_words).                                                            *)
\* Faulty variant: a later entry replaces the earlier one with its word.
MergeStepLastWins(acc, word) ==
    [all |-> Append(SelectSeq(acc.all, LAMBDA e : e.word # word.word), word),
     seen |-> acc.seen \cup {word.word}]
MergeStep(acc, word) ==
    IF word.word \notin acc.seen
    THEN [all |-> Append(acc.all, word), seen |-> acc.seen \cup {word.word}]
    ELSE acc

(* `for word in vocabulary`, inside the try: the loop runs to the end of   *)
(* the file or to the first element that raises; what was appended before  *)
(* the exception stays appended.                                           *)
RECURSIVE MergeLoop(_, _)
MergeLoop(acc, vocabulary) ==
    IF vocabulary = <<>> THEN acc
    ELSE IF EntryRaises(Head(vocabulary)) THEN acc
    ELSE MergeLoop(MergeStep(acc, Head(vocabulary)), Tail(vocabulary))

(* The loop over `vocabulary` ends in an exception. *)
LoopRaises(vocabulary) == \E i \in 1..Len(vocabulary) : EntryRaises(vocabulary[i])

MergeIdle ==
    /\ mergeIn = <<>>
    /\ mergeOut = Absent
    /\ mergeAll = <<>>
    /\ mergeSeen = {}
    /\ mergeLen = 0

(* The next file of json_files is opened; `file` is what is found there.   *)
(* json.load raises: the warning is printed and the file contributes       *)
(* nothing.                                                                *)
MergeSkipFile ==
    /\ pc = "merge_loop"
    /\ Len(mergeIn) < mergeLen
    /\ \E file \in MergeFiles :
        /\ file.kind # "json"
        /\ mergeIn' = Append(mergeIn, file)
    /\ UNCHANGED <<pc, mergeLen, mergeOut, mergeAll, mergeSeen>>
    /\ UNCHANGED notMerge

(* The file is read and its entries are appended, each unless its word    *)
(* has been seen.                                                          *)
MergeReadFile ==
    /\ pc = "merge_loop"
    /\ Len(mergeIn) < mergeLen
    /\ \E file \in MergeFiles :
        /\ file.kind = "json"
        /\ ~LoopRaises(file.data)
        /\ LET acc == MergeLoop([all |-> mergeAll, seen |-> mergeSeen], file.data) IN
            /\ mergeAll' = acc.all
            /\ mergeSeen' = acc.seen
        /\ mergeIn' = Append(mergeIn, file)
    /\ UNCHANGED <<pc, mergeLen, mergeOut>>
    /\ UNCHANGED notMerge

(* An element of the file raises inside the try: the warning is printed,   *)
(* the entries appended before it are kept, the rest of the file is not    *)
(* looked at, and the loop goes on with the next file.                     *)
MergeFileRaises ==
    /\ pc = "merge_loop"
    /\ Len(mergeIn) < mergeLen
    /\ \E file \in MergeFiles :
        /\ file.kind = "json"
        /\ LoopRaises(file.data)
        /\ LET acc == MergeLoop([all |-> mergeAll, seen |-> mergeSeen], file.data) IN
            /\ mergeAll' = acc.all
            /\ mergeSeen' = acc.seen
        /\ mergeIn' = Append(mergeIn, file)
    /\ UNCHANGED <<pc, mergeLen, mergeOut>>
    /\ UNCHANGED notMerge

(* open(output_file, 'w'); json.dump(all_vocabulary) *)
MergeWrite ==
    /\ pc = "merge_loop"
    /\ Len(mergeIn) = mergeLen
    /\ mergeOut' = JsonFile(mergeAll)
    /\ pc' = "merge_done"
    /\ UNCHANGED <<mergeIn, mergeAll, mergeSeen, mergeLen>>
    /\ UNCHANGED notMerge

----------------------------------------------------------------------------
(*                          download_vocabulary.py                         *)

(* LEVELS.items(), in the dict's insertion order. *)
LEVELS == <<"N5", "N4", "N3", "N2", "N1">>
LevelSet == {LEVELS[i] : i \in 1..Len(LEVELS)}

(* Rows csv.DictReader can yield from the downloaded CSV:                  *)
(*   an expression with a leading tab and no reading,                      *)
(*   the same expression with a reading behind an ideographic space and a  *)
(*   meaning before a space,                                               *)
(*   an expression of one ideographic space,                               *)
(*   a CSV without a meaning column,                                       *)
(*   a row shorter than the header (meaning is None).                      *)
FetchRowPool ==
    {[expression |-> <<9, 97>>, reading |-> <<>>, meaning |-> <<109>>],
     [expression |-> <<97>>, reading |-> <<12288, 97>>, meaning |-> <<109, 32>>],
     [expression |-> <<12288>>, reading |-> <<114>>, meaning |-> <<109>>],
     [expression |-> <<97>>, reading |-> <<114>>],
     [expression |-> <<97>>, reading |-> <<114>>, meaning |-> None]}

(* What requests.get + raise_for_status does for one level when it         *)
(* returns: it raises a RequestException, or the response holds a CSV.     *)
(* The call is made without a timeout: it may also never return (action    *)
(* FetchHang).                                                             *)
FetchOutcomes ==
    {[kind |-> "request_error", rows |-> <<>>]}
    \cup {[kind |-> "ok", rows |-> r] : r \in SeqsUpTo(FetchRowPool, MaxRows)}

(* row.get(key, '') *)
RowGet(row, key) == IF key \in DOMAIN row THEN row[key] ELSE <<>>

(* `for row in csv_reader`: the vocabulary built, or ok = FALSE when       *)
(* .strip() is called on None (AttributeError).                            *)
RECURSIVE FetchParse(_, _)
FetchParse(vocabulary, rows) ==
    IF rows = <<>> THEN [ok |-> TRUE, vocabulary |-> vocabulary]
    ELSE LET row == Head(rows)
             e == RowGet(row, "expression")
             r == RowGet(row, "reading")
             m == RowGet(row, "meaning")
             word == Strip(e)
             reading == IF Strip(r) = <<>> THEN word ELSE Strip(r)
             meaning == Strip(m)
         IN  IF e = None THEN [ok |-> FALSE, vocabulary |-> <<>>]
             ELSE IF word = <<>> THEN FetchParse(vocabulary, Tail(rows))
             ELSE IF r = None THEN [ok |-> FALSE, vocabulary |-> <<>>]
             ELSE IF m = None THEN [ok |-> FALSE, vocabulary |-> <<>>]
             ELSE IF meaning = <<>> THEN FetchParse(vocabulary, Tail(rows))
             ELSE FetchParse(
                     Append(vocabulary,
                            [word |-> word, reading |-> reading, meaning |-> meaning]),
                     Tail(rows))

(* download_and_convert on a level whose file is `prev`: the file          *)
(* afterwards, the value returned, and the entries built. Both except      *)
(* clauses return 0 without touching the file.                             *)
\* Faulty variant: the file is written (empty) also when the call fails.
DownloadAndConvertTruncating(prev, outcome) ==
    LET p == IF outcome.kind = "ok" THEN FetchParse(<<>>, outcome.rows)
             ELSE [ok |-> FALSE, vocabulary |-> <<>>]
    IN  [file |-> JsonFile(p.vocabulary), count |-> Len(p.vocabulary),
         ok |-> p.ok, vocabulary |-> p.vocabulary]
DownloadAndConvert(prev, outcome) ==
    LET p == IF outcome.kind = "ok" THEN FetchParse(<<>>, outcome.rows)
             ELSE [ok |-> FALSE, vocabulary |-> <<>>]
    IN  IF p.ok
        THEN [file |-> JsonFile(p.vocabulary), count |-> Len(p.vocabulary),
              ok |-> TRUE, vocabulary |-> p.vocabulary]
        ELSE [file |-> prev, count |-> 0, ok |-> FALSE, vocabulary |-> <<>>]

FetchIdle ==
    /\ lvlFiles = [l \in LevelSet |-> Absent]
    /\ lvlBefore = [l \in LevelSet |-> Absent]
    /\ lvlIdx = 0
    /\ attempted = <<>>
    /\ counts = <<>>
    /\ obtained = <<>>
    /\ totalWords = 0

(* total_words += count *)
\* Faulty variant: the total is off by one per level.
AddCountOffByOne(total, count) == total + count + 1
AddCount(total, count) == total + count

(* One iteration of main's loop: count = download_and_convert(level, ...); *)
(* total_words += count.                                                   *)
FetchLevel ==
    /\ pc = "fetch_loop"
    /\ lvlIdx < Len(LEVELS)
    /\ \E outcome \in FetchOutcomes :
        LET level == LEVELS[lvlIdx + 1]
            res == DownloadAndConvert(lvlFiles[level], outcome)
        IN  /\ lvlFiles' = [lvlFiles EXCEPT ![level] = res.file]
            /\ attempted' = Append(attempted, level)
            /\ counts' = Append(counts, res.count)
            /\ obtained' = Append(obtained, [ok |-> res.ok, vocabulary |-> res.vocabulary])
            /\ totalWords' = AddCount(totalWords, res.count)
    /\ lvlIdx' = lvlIdx + 1
    /\ UNCHANGED <<pc, lvlBefore>>
    /\ UNCHANGED notFetch

(* requests.get(url) for the next level never returns (the server accepts *)
(* the connection and sends nothing; no timeout is passed): main stays in  *)
(* the call, nothing is counted or written, no later level is reached.     *)
FetchHang ==
    /\ pc = "fetch_loop"
    /\ lvlIdx < Len(LEVELS)
    /\ attempted' = Append(attempted, LEVELS[lvlIdx + 1])
    /\ pc' = "fetch_blocked"
    /\ UNCHANGED <<lvlFiles, lvlBefore, lvlIdx, counts, obtained, totalWords>>
    /\ UNCHANGED notFetch

(* The loop is over: main prints the total and returns. *)
FetchFinish ==
    /\ pc = "fetch_loop"
    /\ lvlIdx = Len(LEVELS)
    /\ pc' = "fetch_done"
    /\ UNCHANGED fetchVars
    /\ UNCHANGED notFetch

----------------------------------------------------------------------------
(*                           add_translations.py                           *)

(* The keys of LANGUAGES, in the dict's insertion order. *)
LANGUAGES ==
    << <<"z", "h", "-", "c", "n">>, <<"n", "e">>, <<"v", "i">>, <<"m", "y">>,
       <<"k", "o">>, <<"a", "r">>, <<"e", "s">>, <<"d", "e">>, <<"f", "r">> >>
LangSet == {LANGUAGES[i] : i \in 1..Len(LANGUAGES)}

EN == <<"e", "n">>

(* lang_code.split('-')[0]: the code up to its first '-'. *)
RECURSIVE LangBase(_)
LangBase(code) ==
    IF code = <<>> \/ Head(code) = "-" THEN <<>>
    ELSE <<Head(code)>> \o LangBase(Tail(code))

(* translation.text for translator.translate(text, dest=dest), when the    *)
(* call returns: a text that is not the English one.                       *)
ServiceText(text, dest) == text \o <<"@">> \o dest

(* A JSON object as the value of 'meanings', and a value that is not one.  *)
Dict(map) == [isdict |-> TRUE, map |-> map]
NotADict  == [isdict |-> FALSE, map |-> <<>>]

CAT == <<"c", "a", "t">>

(* Elements of the translator's input: an entry untranslated, translated   *)
(* by an earlier run, with an empty meaning, with a meanings that is no    *)
(* mapping, and an object that has no 'word'.                              *)
TransEntryPool ==
    {[word |-> "neko", reading |-> "r", meaning |-> CAT],
     [word |-> "neko", reading |-> "r", meaning |-> CAT,
      meanings |-> Dict((EN :> CAT) @@ (<<"k", "o">> :> <<"g", "o">>))],
     [word |-> "neko", reading |-> "r", meaning |-> <<>>],
     [word |-> "neko", reading |-> "r", meaning |-> CAT, meanings |-> NotADict],
     [reading |-> "r", meaning |-> CAT]}

(* word_entry['word'] can be read (it is, in the print of each branch of   *)
(* the translator's loop and in the patcher's lookups).                    *)
HasWord(word_entry) == "word" \in DOMAIN word_entry

(* 'meanings' in word_entry and isinstance(word_entry['meanings'], dict) *)
\* Faulty variant: no entry is taken as already translated.
HasDictMeaningsNever(word_entry) == FALSE
HasDictMeanings(word_entry) ==
    "meanings" \in DOMAIN word_entry /\ word_entry["meanings"].isdict

(* word_entry.get('meaning', '') *)
EntryMeaning(word_entry) ==
    IF "meaning" \in DOMAIN word_entry THEN word_entry["meaning"] ELSE <<>>

(* word_entry['meanings'] = value *)
SetMeanings(word_entry, value) ==
    [f \in DOMAIN word_entry \cup {"meanings"} |->
        IF f = "meanings" THEN value ELSE word_entry[f]]

(* meanings[lang_code.split('-')[0]] = text *)
PutMeaning(meanings, lang_code, text) ==
    (LangBase(lang_code) :> text) @@ meanings

(* The except branch: meanings[...] = english_meaning. *)
\* Faulty variant: nothing is stored for the language whose call raised.
OnTranslateErrorDrop(meanings, lang_code, english_meaning) == meanings
OnTranslateError(meanings, lang_code, english_meaning) ==
    PutMeaning(meanings, lang_code, english_meaning)

TransIdle ==
    /\ disk = [p \in {"in", "out"} |-> Absent]
    /\ inPath = "in"
    /\ outPath = "in"
    /\ calls = {}
    /\ raised = {}
    /\ vocab = <<>>
    /\ entIdx = 0
    /\ langIdx = 0
    /\ meaningsAcc = <<>>
    /\ run = 1
    /\ readSnap = <<>>
    /\ destBefore = Absent
    /\ firstResult = Absent

(* json.load(open(input_file)) *)
TransRead ==
    /\ pc = "trans_read"
    /\ disk[inPath].kind = "json"
    /\ vocab' = disk[inPath].data
    /\ readSnap' = disk[inPath].data
    /\ entIdx' = 0
    /\ pc' = "trans_loop"
    /\ UNCHANGED <<disk, inPath, outPath, calls, raised, langIdx, meaningsAcc, run,
                   destBefore, firstResult>>
    /\ UNCHANGED notTrans

(* The input cannot be opened or parsed: the exception is not caught. *)
TransReadFail ==
    /\ pc = "trans_read"
    /\ disk[inPath].kind # "json"
    /\ pc' = "trans_crashed"
    /\ UNCHANGED transVars
    /\ UNCHANGED notTrans

(* The entry already has a meanings dict: its word is printed, continue. *)
TransSkipTranslated ==
    /\ pc = "trans_loop"
    /\ entIdx < Len(vocab)
    /\ HasWord(vocab[entIdx + 1])
    /\ HasDictMeanings(vocab[entIdx + 1])
    /\ entIdx' = entIdx + 1
    /\ UNCHANGED <<pc, disk, inPath, outPath, calls, raised, vocab, langIdx, meaningsAcc,
                   run, readSnap, destBefore, firstResult>>
    /\ UNCHANGED notTrans

(* The entry has no (or an empty) meaning: its word is printed, continue. *)
TransSkipNoMeaning ==
    /\ pc = "trans_loop"
    /\ entIdx < Len(vocab)
    /\ HasWord(vocab[entIdx + 1])
    /\ ~HasDictMeanings(vocab[entIdx + 1])
    /\ EntryMeaning(vocab[entIdx + 1]) = <<>>
    /\ entIdx' = entIdx + 1
    /\ UNCHANGED <<pc, disk, inPath, outPath, calls, raised, vocab, langIdx, meaningsAcc,
                   run, readSnap, destBefore, firstResult>>
    /\ UNCHANGED notTrans

(* The entry's word is printed; meanings = {'en': english_meaning} *)
TransBegin ==
    /\ pc = "trans_loop"
    /\ entIdx < Len(vocab)
    /\ HasWord(vocab[entIdx + 1])
    /\ ~HasDictMeanings(vocab[entIdx + 1])
    /\ EntryMeaning(vocab[entIdx + 1]) # <<>>
    /\ meaningsAcc' = (EN :> EntryMeaning(vocab[entIdx + 1]))
    /\ langIdx' = 0
    /\ pc' = "trans_langs"
    /\ UNCHANGED <<disk, inPath, outPath, calls, raised, vocab, entIdx, run, readSnap,
                   destBefore, firstResult>>
    /\ UNCHANGED notTrans

(* The element has no 'word': whichever branch of the loop it takes, the   *)
(* print of word_entry['word'] raises KeyError, which nothing catches. The *)
(* process ends before the write; what it had translated is lost.          *)
TransKeyError ==
    /\ pc = "trans_loop"
    /\ entIdx < Len(vocab)
    /\ ~HasWord(vocab[entIdx + 1])
    /\ pc' = "trans_crashed"
    /\ vocab' = <<>>
    /\ entIdx' = 0
    /\ langIdx' = 0
    /\ meaningsAcc' = <<>>
    /\ raised' = {}
    /\ UNCHANGED <<disk, inPath, outPath, calls, run, readSnap, destBefore,
                   firstResult>>
    /\ UNCHANGED notTrans

(* translator.translate returns: the text is stored under the base code.  *)
(* Each call stands alone: whether it returns or raises does not depend on *)
(* the calls before it.                                                    *)
TransCallOk ==
    /\ pc = "trans_langs"
    /\ langIdx < Len(LANGUAGES)
    /\ LET lang_code == LANGUAGES[langIdx + 1]
           english_meaning == EntryMeaning(vocab[entIdx + 1])
       IN  /\ calls' = calls \cup {<<entIdx + 1, lang_code>>}
           /\ UNCHANGED raised
           /\ meaningsAcc' = PutMeaning(meaningsAcc, lang_code,
                                        ServiceText(english_meaning, lang_code))
    /\ langIdx' = langIdx + 1
    /\ UNCHANGED <<pc, disk, inPath, outPath, vocab, entIdx, run, readSnap,
                   destBefore, firstResult>>
    /\ UNCHANGED notTrans

(* translator.translate raises: the English meaning is stored instead and  *)
(* the loop goes on.                                                       *)
TransCallFail ==
    /\ pc = "trans_langs"
    /\ langIdx < Len(LANGUAGES)
    /\ Cardinality(raised) < MaxRaises
    /\ LET lang_code == LANGUAGES[langIdx + 1]
           english_meaning == EntryMeaning(vocab[entIdx + 1])
       IN  /\ calls' = calls \cup {<<entIdx + 1, lang_code>>}
           /\ raised' = raised \cup {<<entIdx + 1, lang_code>>}
           /\ meaningsAcc' = OnTranslateError(meaningsAcc, lang_code, english_meaning)
    /\ langIdx' = langIdx + 1
    /\ UNCHANGED <<pc, disk, inPath, outPath, vocab, entIdx, run, readSnap,
                   destBefore, firstResult>>
    /\ UNCHANGED notTrans

(* word_entry['meanings'] = meanings *)
\* Faulty variant: the output file is rewritten after every entry.
TransAttachSaving ==
    /\ pc = "trans_langs"
    /\ langIdx = Len(LANGUAGES)
    /\ vocab' = [vocab EXCEPT ![entIdx + 1] = SetMeanings(@, Dict(meaningsAcc))]
    /\ disk' = [disk EXCEPT ![outPath] = JsonFile(vocab')]
    /\ entIdx' = entIdx + 1
    /\ pc' = "trans_loop"
    /\ UNCHANGED <<inPath, outPath, calls, raised, langIdx, meaningsAcc, run,
                   readSnap, destBefore, firstResult>>
    /\ UNCHANGED notTrans
TransAttach ==
    /\ pc = "trans_langs"
    /\ langIdx = Len(LANGUAGES)
    /\ vocab' = [vocab EXCEPT ![entIdx + 1] = SetMeanings(@, Dict(meaningsAcc))]
    /\ entIdx' = entIdx + 1
    /\ pc' = "trans_loop"
    /\ UNCHANGED <<disk, inPath, outPath, calls, raised, langIdx, meaningsAcc, run,
                   readSnap, destBefore, firstResult>>
    /\ UNCHANGED notTrans

(* open(output_file, 'w'): the loop is over and the write begins; the      *)
(* destination is truncated.                                               *)
TransOpenOut ==
    /\ pc = "trans_loop"
    /\ entIdx = Len(vocab)
    /\ disk' = [disk EXCEPT ![outPath] = Truncated]
    /\ pc' = "trans_write"
    /\ UNCHANGED <<inPath, outPath, calls, raised, vocab, entIdx, langIdx, meaningsAcc,
                   run, readSnap, destBefore, firstResult>>
    /\ UNCHANGED notTrans

(* json.dump(vocabulary, f) and the close of the file: the write is        *)
(* complete.                                                               *)
TransWrite ==
    /\ pc = "trans_write"
    /\ disk' = [disk EXCEPT ![outPath] = JsonFile(vocab)]
    /\ firstResult' = IF run = 1 THEN JsonFile(vocab) ELSE firstResult
    /\ pc' = "trans_done"
    /\ UNCHANGED <<inPath, outPath, calls, raised, vocab, entIdx, langIdx, meaningsAcc,
                   run, readSnap, destBefore>>
    /\ UNCHANGED notTrans

(* The process is terminated before the write begins: its memory is gone   *)
(* (the exceptions it caught with it), the disk stays, and so do the calls *)
(* that were made.                                                         *)
TransKill ==
    /\ pc \in {"trans_read", "trans_loop", "trans_langs"}
    /\ pc' = "trans_killed"
    /\ vocab' = <<>>
    /\ entIdx' = 0
    /\ langIdx' = 0
    /\ meaningsAcc' = <<>>
    /\ raised' = {}
    /\ UNCHANGED <<disk, inPath, outPath, calls, run, readSnap, destBefore,
                   firstResult>>
    /\ UNCHANGED notTrans

(* The process is terminated inside the write, between the open and the    *)
(* end of the dump: the destination stays truncated.                       *)
TransKillInWrite ==
    /\ pc = "trans_write"
    /\ pc' = "trans_killed_in_write"
    /\ vocab' = <<>>
    /\ entIdx' = 0
    /\ langIdx' = 0
    /\ meaningsAcc' = <<>>
    /\ raised' = {}
    /\ UNCHANGED <<disk, inPath, outPath, calls, run, readSnap, destBefore,
                   firstResult>>
    /\ UNCHANGED notTrans

(* The translator is run a second time, in place, on the file it has      *)
(* written.                                                                *)
TransRerun ==
    /\ pc = "trans_done"
    /\ run = 1
    /\ run' = 2
    /\ inPath' = outPath
    /\ destBefore' = disk[outPath]
    /\ vocab' = <<>>
    /\ readSnap' = <<>>
    /\ entIdx' = 0
    /\ langIdx' = 0
    /\ meaningsAcc' = <<>>
    /\ calls' = {}
    /\ raised' = {}
    /\ pc' = "trans_read"
    /\ UNCHANGED <<disk, outPath, firstResult>>
    /\ UNCHANGED notTrans

----------------------------------------------------------------------------
(*                          update_first_words.py                          *)

M1 == Dict((EN :> <<"b", "o", "o", "k">>) @@ (<<"k", "o">> :> <<"c", "h">>))
M2 == Dict((EN :> <<"r", "o", "o", "t">>))
M0 == Dict((EN :> <<"o", "l", "d">>))

(* Entries of N5_sample.json: two for the same word with different         *)
(* meanings, one for another word, one that has no meanings.               *)
SampleEntryPool ==
    {[word |-> "hon", reading |-> "r", meaning |-> "book", meanings |-> M1],
     [word |-> "hon", reading |-> "r", meaning |-> "book", meanings |-> M2],
     [word |-> "neko", reading |-> "r", meaning |-> "cat", meanings |-> M1],
     [word |-> "neko", reading |-> "r", meaning |-> "cat"],
     [reading |-> "r", meaning |-> "x", meanings |-> M1]}

(* Entries of N5.json: with and without meanings, and a word no sample has. *)
TargetEntryPool ==
    {[word |-> "hon", reading |-> "r", meaning |-> "book"],
     [word |-> "hon", reading |-> "r", meaning |-> "book", meanings |-> M0],
     [word |-> "neko", reading |-> "r", meaning |-> "cat"],
     [word |-> "inu", reading |-> "r", meaning |-> "dog", meanings |-> M0],
     [reading |-> "r", meaning |-> "x"]}

(* {word['word']: word for word in multilingual_words}: a later entry      *)
(* replaces an earlier one with the same word.                             *)
RECURSIVE BuildMap(_, _)
BuildMap(map, words) ==
    IF words = <<>> THEN map
    ELSE BuildMap((Head(words).word :> Head(words)) @@ map, Tail(words))

(* word_entry['meanings'] = multilingual_map[word_entry['word']]['meanings'] *)
\* Faulty variant: an entry that has meanings keeps them.
PatchedEntryKeepOld(word_entry, map) ==
    IF "meanings" \in DOMAIN word_entry THEN word_entry
    ELSE SetMeanings(word_entry, map[word_entry.word]["meanings"])
PatchedEntry(word_entry, map) ==
    SetMeanings(word_entry, map[word_entry.word]["meanings"])

PatchIdle ==
    /\ sampleFile = Absent
    /\ n5File = Absent
    /\ n5Before = Absent
    /\ mlMap = <<>>
    /\ n5Vocab = <<>>
    /\ patchIdx = 0
    /\ updatedCount = 0

(* Every element of a list has a 'word'. *)
AllHaveWord(words) == \A i \in 1..Len(words) : HasWord(words[i])

(* Both files are read and the mapping is built. *)
PatchRead ==
    /\ pc = "patch_read"
    /\ sampleFile.kind = "json" /\ n5File.kind = "json"
    /\ AllHaveWord(sampleFile.data)
    /\ mlMap' = BuildMap(<<>>, sampleFile.data)
    /\ n5Vocab' = n5File.data
    /\ pc' = "patch_loop"
    /\ UNCHANGED <<sampleFile, n5File, n5Before, patchIdx, updatedCount>>
    /\ UNCHANGED notPatch

(* A file cannot be opened or parsed: the exception ends the script. *)
PatchReadFail ==
    /\ pc = "patch_read"
    /\ sampleFile.kind # "json" \/ n5File.kind # "json"
    /\ pc' = "patch_crashed"
    /\ UNCHANGED patchVars
    /\ UNCHANGED notPatch

(* Both files are read; an element of the sample has no 'word': building   *)
(* the mapping raises KeyError, which ends the script.                     *)
PatchMapKeyError ==
    /\ pc = "patch_read"
    /\ sampleFile.kind = "json" /\ n5File.kind = "json"
    /\ ~AllHaveWord(sampleFile.data)
    /\ pc' = "patch_crashed"
    /\ UNCHANGED patchVars
    /\ UNCHANGED notPatch

(* The entry's word is a key of the mapping. *)
PatchUpdate ==
    /\ pc = "patch_loop"
    /\ patchIdx < Len(n5Vocab)
    /\ HasWord(n5Vocab[patchIdx + 1])
    /\ n5Vocab[patchIdx + 1].word \in DOMAIN mlMap
    /\ "meanings" \in DOMAIN mlMap[n5Vocab[patchIdx + 1].word]
    /\ n5Vocab' = [n5Vocab EXCEPT ![patchIdx + 1] = PatchedEntry(@, mlMap)]
    /\ updatedCount' = updatedCount + 1
    /\ patchIdx' = patchIdx + 1
    /\ UNCHANGED <<pc, sampleFile, n5File, n5Before, mlMap>>
    /\ UNCHANGED notPatch

(* The element of n5_vocab has no 'word', or the matching sample entry has *)
(* no 'meanings': KeyError ends the script.                                *)
PatchKeyError ==
    /\ pc = "patch_loop"
    /\ patchIdx < Len(n5Vocab)
    /\ IF ~HasWord(n5Vocab[patchIdx + 1]) THEN TRUE
       ELSE IF n5Vocab[patchIdx + 1].word \notin DOMAIN mlMap THEN FALSE
       ELSE "meanings" \notin DOMAIN mlMap[n5Vocab[patchIdx + 1].word]
    /\ pc' = "patch_crashed"
    /\ UNCHANGED patchVars
    /\ UNCHANGED notPatch

PatchNoMatch ==
    /\ pc = "patch_loop"
    /\ patchIdx < Len(n5Vocab)
    /\ HasWord(n5Vocab[patchIdx + 1])
    /\ n5Vocab[patchIdx + 1].word \notin DOMAIN mlMap
    /\ patchIdx' = patchIdx + 1
    /\ UNCHANGED <<pc, sampleFile, n5File, n5Before, mlMap, n5Vocab, updatedCount>>
    /\ UNCHANGED notPatch

(* open('vocabulary/N5.json', 'w'): the loop is over and the write begins; *)
(* the file is truncated.                                                  *)
PatchOpenOut ==
    /\ pc = "patch_loop"
    /\ patchIdx = Len(n5Vocab)
    /\ n5File' = Truncated
    /\ pc' = "patch_write"
    /\ UNCHANGED <<sampleFile, n5Before, mlMap, n5Vocab, patchIdx, updatedCount>>
    /\ UNCHANGED notPatch

(* json.dump(n5_vocab, f) and the close of the file. *)
PatchWrite ==
    /\ pc = "patch_write"
    /\ n5File' = JsonFile(n5Vocab)
    /\ pc' = "patch_done"
    /\ UNCHANGED <<sampleFile, n5Before, mlMap, n5Vocab, patchIdx, updatedCount>>
    /\ UNCHANGED notPatch

(* The process is terminated inside the write, between the open and the    *)
(* end of the dump: N5.json stays truncated.                               *)
PatchKillInWrite ==
    /\ pc = "patch_write"
    /\ pc' = "patch_killed_in_write"
    /\ mlMap' = <<>>
    /\ n5Vocab' = <<>>
    /\ patchIdx' = 0
    /\ updatedCount' = 0
    /\ UNCHANGED <<sampleFile, n5File, n5Before>>
    /\ UNCHANGED notPatch

(* The process is terminated before the write begins. *)
PatchKill ==
    /\ pc \in {"patch_read", "patch_loop"}
    /\ pc' = "patch_killed"
    /\ mlMap' = <<>>
    /\ n5Vocab' = <<>>
    /\ patchIdx' = 0
    /\ updatedCount' = 0
    /\ UNCHANGED <<sampleFile, n5File, n5Before>>
    /\ UNCHANGED notPatch

----------------------------------------------------------------------------
(*                              Specifications                             *)

InitConv ==
    /\ pc = "conv_open"
    /\ csvFile \in CsvInputs
    /\ jsonFile \in {Absent, OldFile}
    /\ jsonBefore = jsonFile
    /\ convVocab = <<>>
    /\ convIdx = 0
    /\ convRet = "none"
    /\ MergeIdle /\ FetchIdle /\ TransIdle /\ PatchIdle

NextConv ==
    \/ ConvFileNotFound
    \/ ConvBadHeader
    \/ ConvHeaderOk
    \/ ConvRow
    \/ ConvWrite

SpecConv == InitConv /\ [][NextConv]_vars

InitMerge ==
    /\ pc = "merge_loop"
    /\ mergeIn = <<>>
    /\ mergeOut = Absent
    /\ mergeAll = <<>>
    /\ mergeSeen = {}
    /\ mergeLen \in 0..MaxFiles
    /\ ConvIdle /\ FetchIdle /\ TransIdle /\ PatchIdle

NextMerge ==
    \/ MergeSkipFile
    \/ MergeReadFile
    \/ MergeFileRaises
    \/ MergeWrite

SpecMerge == InitMerge /\ [][NextMerge]_vars

InitFetch ==
    /\ pc = "fetch_loop"
    /\ \E prev \in {Absent, OldFile} :
        /\ lvlFiles = [l \in LevelSet |-> prev]
        /\ lvlBefore = [l \in LevelSet |-> prev]
    /\ lvlIdx = 0
    /\ attempted = <<>>
    /\ counts = <<>>
    /\ obtained = <<>>
    /\ totalWords = 0
    /\ ConvIdle /\ MergeIdle /\ TransIdle /\ PatchIdle

NextFetch ==
    \/ FetchLevel
    \/ FetchHang
    \/ FetchFinish

SpecFetch == InitFetch /\ [][NextFetch]_vars

(* The loop of main is sequential code: it takes its next step whenever it *)
(* has one. In a call that never returns ("fetch_blocked") it has none.    *)
FairSpecFetch == SpecFetch /\ WF_vars(NextFetch)

InitTrans ==
    /\ pc = "trans_read"
    /\ \E input \in {Unreadable} \cup
                    {JsonFile(d) : d \in SeqsUpTo(TransEntryPool, MaxEntries)} :
       \E out \in {"in", "out"} :
        /\ disk = [p \in {"in", "out"} |-> IF p = "in" THEN input ELSE Absent]
        /\ outPath = out
        /\ destBefore = IF out = "in" THEN input ELSE Absent
    /\ inPath = "in"
    /\ calls = {}
    /\ raised = {}
    /\ vocab = <<>>
    /\ entIdx = 0
    /\ langIdx = 0
    /\ meaningsAcc = <<>>
    /\ run = 1
    /\ readSnap = <<>>
    /\ firstResult = Absent
    /\ ConvIdle /\ MergeIdle /\ FetchIdle /\ PatchIdle

TransStep ==
    \/ TransRead
    \/ TransReadFail
    \/ TransSkipTranslated
    \/ TransSkipNoMeaning
    \/ TransBegin
    \/ TransKeyError
    \/ TransCallOk
    \/ TransCallFail
    \/ TransAttach
    \/ TransOpenOut
    \/ TransWrite

NextTrans ==
    \/ TransRead
    \/ TransReadFail
    \/ TransSkipTranslated
    \/ TransSkipNoMeaning
    \/ TransBegin
    \/ TransKeyError
    \/ TransCallOk
    \/ TransCallFail
    \/ TransAttach
    \/ TransOpenOut
    \/ TransWrite
    \/ TransKill
    \/ TransKillInWrite
    \/ TransRerun

SpecTrans == InitTrans /\ [][NextTrans]_vars

InitPatch ==
    /\ pc = "patch_read"
    /\ sampleFile \in {Unreadable} \cup
                      {JsonFile(d) : d \in SeqsUpTo(SampleEntryPool, MaxEntries)}
    /\ n5File \in {JsonFile(d) : d \in SeqsUpTo(TargetEntryPool, MaxEntries)}
    /\ n5Before = n5File
    /\ mlMap = <<>>
    /\ n5Vocab = <<>>
    /\ patchIdx = 0
    /\ updatedCount = 0
    /\ ConvIdle /\ MergeIdle /\ FetchIdle /\ TransIdle

NextPatch ==
    \/ PatchRead
    \/ PatchReadFail
    \/ PatchMapKeyError
    \/ PatchUpdate
    \/ PatchKeyError
    \/ PatchNoMatch
    \/ PatchOpenOut
    \/ PatchWrite
    \/ PatchKill
    \/ PatchKillInWrite

SpecPatch == InitPatch /\ [][NextPatch]_vars

(* The translator or the patcher, whichever is started. *)
InitTransPatch == InitTrans \/ InitPatch
NextTransPatch == NextTrans \/ NextPatch
SpecTransPatch == InitTransPatch /\ [][NextTransPatch]_vars

(* Any one of the scripts. *)
Init == InitConv \/ InitMerge \/ InitFetch \/ InitTrans \/ InitPatch
Next == NextConv \/ NextMerge \/ NextFetch \/ NextTrans \/ NextPatch
Spec == Init /\ [][Next]_vars

----------------------------------------------------------------------------
(*                                 Claims                                  *)

RECURSIVE SumLens(_)
SumLens(vs) == IF vs = <<>> THEN 0 ELSE Len(Head(vs)) + SumLens(Tail(vs))

(* The entries of a list up to its first element that is no entry (has no  *)
(* word, or one that is no string): all of them when the list is a         *)
(* dataset.                                                                *)
IsEntry(e) == IF "word" \in DOMAIN e THEN e.word # UnhashableWord ELSE FALSE

RECURSIVE EntriesOf(_)
EntriesOf(data) ==
    IF data = <<>> THEN <<>>
    ELSE IF ~IsEntry(Head(data)) THEN <<>>
    ELSE <<Head(data)>> \o EntriesOf(Tail(data))

(* The entries of the readable files of `files`, in list and file order. *)
RECURSIVE Concatenation(_)
Concatenation(files) ==
    IF files = <<>> THEN <<>>
    ELSE (IF Head(files).kind = "json" THEN EntriesOf(Head(files).data) ELSE <<>>)
         \o Concatenation(Tail(files))

(* Every element of every readable file is an entry. *)
AllDatasets(files) ==
    \A k \in 1..Len(files) :
        files[k].kind = "json" => EntriesOf(files[k].data) = files[k].data

WordsDistinct(data) ==
    \A i, j \in 1..Len(data) : data[i].word = data[j].word => i = j

(* C1: once merge_json_files has written, the output is the                *)
(* first-occurrence subsequence of the concatenation of the files'         *)
(* entries: an entry is kept iff no earlier entry has its word, the kept   *)
(* entry is the first with that word, and kept entries keep their order.   *)
(* The entries of a dataset file are all its elements; a list with an      *)
(* element that is no entry gives the entries before that element.         *)
C1_MergeFirstSeenWins ==
    pc = "merge_done" =>
        LET cat == Concatenation(mergeIn)
            first == {i \in 1..Len(cat) : \A j \in 1..(i - 1) : cat[j].word # cat[i].word}
            out == mergeOut.data
        IN  /\ mergeOut.kind = "json"
            /\ Len(out) = Cardinality(first)
            /\ \A i \in first : out[Cardinality({j \in first : j <= i})] = cat[i]

(* A merge in which a later file repeats a word with another meaning and   *)
(* brings a new word behind it.                                            *)
C1_Witness ==
    /\ pc = "merge_done"
    /\ AllDatasets(mergeIn)
    /\ LET cat == Concatenation(mergeIn) IN
        /\ \E i, j \in 1..Len(cat) : i < j /\ cat[i].word = cat[j].word /\ cat[i] # cat[j]
        /\ Len(mergeOut.data) = 2
        /\ Len(cat) > 2

(* The base code the spec gives each target language. *)
ExpectedBase(lang) == IF lang = <<"z", "h", "-", "c", "n">> THEN <<"z", "h">> ELSE lang

(* C2: after the first run, every entry that had a non-empty meaning and   *)
(* no meanings mapping equals its old value plus meanings = {en: meaning}  *)
(* and, per target language, the fallback (the meaning) where the call for *)
(* this entry raised and the translated text where it returned; all nine   *)
(* languages were called for it; and no raising call stops the loop: on a  *)
(* dataset (every element has a word) the run can always take its next     *)
(* step until the write, and inside an entry it always can.                *)
C2_FallbackPerLanguage ==
    /\ pc = "trans_langs" => ENABLED (TransCallOk \/ TransCallFail \/ TransAttach)
    /\ (pc = "trans_loop" /\ \A i \in 1..Len(vocab) : "word" \in DOMAIN vocab[i]) =>
            ENABLED (TransSkipTranslated \/ TransSkipNoMeaning \/ TransBegin \/ TransOpenOut)
    /\ pc = "trans_write" => ENABLED TransWrite
    /\ (pc = "trans_done" /\ run = 1) =>
        \A i \in 1..Len(readSnap) :
            LET e == readSnap[i]
                o == disk[outPath].data[i]
            IN  (EntryMeaning(e) # <<>>
                 /\ ~("meanings" \in DOMAIN e /\ e["meanings"].isdict)) =>
                    /\ DOMAIN o = DOMAIN e \cup {"meanings"}
                    /\ \A f \in DOMAIN e \ {"meanings"} : o[f] = e[f]
                    /\ o["meanings"].isdict
                    /\ DOMAIN o["meanings"].map = {EN} \cup {ExpectedBase(l) : l \in LangSet}
                    /\ o["meanings"].map[EN] = e["meaning"]
                    /\ \A l \in LangSet :
                        o["meanings"].map[ExpectedBase(l)] =
                            IF <<i, l>> \in raised THEN e["meaning"]
                            ELSE ServiceText(e["meaning"], l)
                    /\ \A l \in LangSet : <<i, l>> \in calls

(* A finished run over two untranslated entries in which the call for ko   *)
(* raised for the first entry and returned for the second, and the call    *)
(* for zh-cn raised for the second.                                        *)
C2_Witness ==
    /\ pc = "trans_done" /\ run = 1
    /\ Len(readSnap) = 2
    /\ "meanings" \notin DOMAIN readSnap[1] /\ "meanings" \notin DOMAIN readSnap[2]
    /\ raised = {<<1, <<"k", "o">> >>, <<2, <<"z", "h", "-", "c", "n">> >>}
    /\ disk[outPath].data[1]["meanings"].map[<<"k", "o">>] = CAT
    /\ disk[outPath].data[2]["meanings"].map[<<"k", "o">>] # CAT
    /\ disk[outPath].data[2]["meanings"].map[<<"z", "h">>] = CAT
    /\ disk[outPath].data[1]["meanings"].map[<<"z", "h">>] # CAT

(* C3: a run on a dataset whose entries all have a meanings mapping makes  *)
(* no translation call and writes the dataset it read; and a second run,   *)
(* on the output of the first, makes no call and leaves that output as it  *)
(* is.                                                                     *)
C3_RerunIdempotent ==
    /\ (pc = "trans_done"
        /\ \A i \in 1..Len(readSnap) :
            "meanings" \in DOMAIN readSnap[i] /\ readSnap[i]["meanings"].isdict) =>
            /\ calls = {}
            /\ disk[outPath] = JsonFile(readSnap)
    /\ (pc = "trans_done" /\ run >= 2) =>
            /\ calls = {}
            /\ disk[outPath] = firstResult

(* A second run has finished on a dataset that the first run translated. *)
C3_Witness ==
    /\ pc = "trans_done" /\ run = 2
    /\ outPath = "out"
    /\ \E i \in 1..Len(disk["in"].data) :
        /\ "meanings" \notin DOMAIN disk["in"].data[i]
        /\ "meanings" \in DOMAIN disk["out"].data[i]
    /\ \E i \in 1..Len(disk["in"].data) : "meanings" \in DOMAIN disk["in"].data[i]

(* C4: when the patcher has run, every target entry whose word is in the   *)
(* sample has the meanings of the sample's (last) entry for that word and  *)
(* its other fields as before, every other entry is unchanged, number and  *)
(* order of the entries are unchanged, and updated_count is the number of  *)
(* matched entries.                                                        *)
C4_PatchMatchesOnly ==
    pc = "patch_done" =>
        LET before == n5Before.data
            after == n5File.data
            sample == sampleFile.data
            keys == {sample[j].word : j \in 1..Len(sample)}
            Last(w) == sample[CHOOSE j \in 1..Len(sample) :
                                /\ sample[j].word = w
                                /\ \A k \in (j + 1)..Len(sample) : sample[k].word # w]
        IN  /\ n5File.kind = "json"
            /\ Len(after) = Len(before)
            /\ \A i \in 1..Len(before) :
                IF before[i].word \in keys
                THEN /\ DOMAIN after[i] = DOMAIN before[i] \cup {"meanings"}
                     /\ after[i]["meanings"] = Last(before[i].word)["meanings"]
                     /\ \A f \in DOMAIN before[i] \ {"meanings"} : after[i][f] = before[i][f]
                ELSE after[i] = before[i]
            /\ updatedCount = Cardinality({i \in 1..Len(before) : before[i].word \in keys})

(* A finished run that replaced the meanings of one entry and left an      *)
(* entry whose word the sample lacks.                                      *)
C4_Witness ==
    /\ pc = "patch_done"
    /\ updatedCount = 1
    /\ Len(n5File.data) = 2
    /\ \E i \in 1..2 :
        /\ "meanings" \in DOMAIN n5Before.data[i]
        /\ n5File.data[i] # n5Before.data[i]
    /\ \E i \in 1..2 : n5File.data[i].word \notin DOMAIN mlMap

(* C5: no entry written by csv_to_json has an empty word, reading or       *)
(* meaning.                                                                *)
C5_NoEmptyField ==
    (pc = "conv_done" /\ convRet = "True") =>
        \A i \in 1..Len(jsonFile.data) :
            /\ jsonFile.data[i].word # <<>>
            /\ jsonFile.data[i].reading # <<>>
            /\ jsonFile.data[i].meaning # <<>>

(* C6: when the CSV lacks one of the columns word, reading, meaning, the   *)
(* output file is never written, and csv_to_json returns False.            *)
C6_MissingColumnNoOutput ==
    (csvFile.kind \in {"csv", "empty"} /\ ~(RequiredColumns \subseteq csvFile.fieldnames)) =>
        /\ jsonFile = jsonBefore
        /\ pc = "conv_done" => convRet = "False"

(* csv_to_json has returned on a CSV that has word and reading but no      *)
(* meaning column, with rows, and an output file that existed.             *)
C6_Witness ==
    /\ pc = "conv_done"
    /\ csvFile.kind = "csv"
    /\ csvFile.fieldnames = {"word", "reading"}
    /\ Len(csvFile.rows) > 0
    /\ convRet = "False"
    /\ jsonFile = OldFile

(* C7: the words of every dataset file written by download_and_convert or  *)
(* by merge_json_files are pairwise distinct.                              *)
C7_WordsUnique ==
    /\ pc = "merge_done" => WordsDistinct(mergeOut.data)
    /\ \A k \in 1..lvlIdx :
        obtained[k].ok => WordsDistinct(lvlFiles[LEVELS[k]].data)

(* C8: until the final write of the translator or the patcher begins, and  *)
(* when the process is terminated or raises before it begins, the          *)
(* destination file is what it was when the run started. The write is the  *)
(* last step: it begins only when the loop is over, truncates the          *)
(* destination and fills it; a process terminated inside it leaves the     *)
(* destination truncated.                                                  *)
C8_WriteIsLast ==
    /\ pc \in {"trans_read", "trans_loop", "trans_langs", "trans_killed", "trans_crashed"}
        => disk[outPath] = destBefore
    /\ pc \in {"patch_read", "patch_loop", "patch_killed", "patch_crashed"}
        => n5File = n5Before
    /\ pc \in {"trans_write", "trans_killed_in_write"} => disk[outPath] = Truncated
    /\ pc \in {"patch_write", "patch_killed_in_write"} => n5File = Truncated
    /\ pc = "trans_done" => disk[outPath].kind = "json"
    /\ pc = "patch_done" => n5File.kind = "json"

(* The translator, in place on a readable dataset, was terminated before   *)
(* its write began, after translation calls had been made.                 *)
C8_Witness ==
    /\ pc = "trans_killed"
    /\ calls # {}
    /\ outPath = "in"
    /\ disk["in"].kind = "json"
    /\ disk["in"] = destBefore

(* A level whose download or processing fails counts 0 and the loop goes   *)
(* on: the levels are attempted once each in the order N5, N4, N3, N2, N1  *)
(* (the one main is blocked in is the last attempted), and the total is    *)
(* the sum of the entries of the levels that succeeded.                    *)
C9_FetchSafety ==
    /\ attempted = SubSeq(LEVELS, 1, IF pc = "fetch_blocked" THEN lvlIdx + 1 ELSE lvlIdx)
    /\ Len(counts) = lvlIdx /\ Len(obtained) = lvlIdx
    /\ \A k \in 1..lvlIdx :
        ~obtained[k].ok => counts[k] = 0 /\ obtained[k].vocabulary = <<>>
    /\ totalWords = SumLens([k \in 1..lvlIdx |-> obtained[k].vocabulary])
    /\ pc = "fetch_done" => attempted = <<"N5", "N4", "N3", "N2", "N1">>

(* C9 as stated: in every run of main each level is attempted once, in     *)
(* order, failures count 0, the total is the sum of the successes, and the *)
(* run ends: "fetch_done" is reached.                                      *)
C9_FetchContinues == []C9_FetchSafety /\ <>(pc = "fetch_done")

(* C9 as amended: the same, for every pattern of failures among the        *)
(* requests that return; the run ends unless a request never returns, and  *)
(* then main stays in that request: the levels before it are counted as    *)
(* above and no later level is attempted.                                  *)
C9_FetchContinuesUnlessBlocked ==
    /\ []C9_FetchSafety
    /\ <>(pc = "fetch_done" \/ pc = "fetch_blocked")
    /\ [](pc = "fetch_blocked" => [](pc = "fetch_blocked"))

(* The run is over; N5 failed, a later level gave entries, the last failed. *)
C9_Witness ==
    /\ pc = "fetch_done"
    /\ ~obtained[1].ok
    /\ obtained[3].ok /\ counts[3] = 2
    /\ ~obtained[5].ok
    /\ totalWords > 2

(* C10 as stated: every processed level's file holds the entries obtained  *)
(* in this run, none when the fetch failed.                                *)
C10_AlwaysOverwritten ==
    \A k \in 1..lvlIdx : lvlFiles[LEVELS[k]] = JsonFile(obtained[k].vocabulary)

(* C10 as amended: the file of a processed level holds exactly the entries *)
(* obtained in this run when the call succeeded, whatever it held before;  *)
(* when the call failed the file is as it was before the run and the call  *)
(* returned 0.                                                             *)
C10_OverwrittenOnSuccess ==
    \A k \in 1..lvlIdx :
        IF obtained[k].ok
        THEN /\ lvlFiles[LEVELS[k]] = JsonFile(obtained[k].vocabulary)
             /\ counts[k] = Len(obtained[k].vocabulary)
        ELSE /\ lvlFiles[LEVELS[k]] = lvlBefore[LEVELS[k]]
             /\ counts[k] = 0

(* A level with a file from an earlier run failed and kept it; another     *)
(* level succeeded and its old file was replaced.                          *)
C10_Witness ==
    /\ lvlIdx >= 2
    /\ ~obtained[1].ok /\ lvlFiles["N5"] = OldFile
    /\ obtained[2].ok /\ lvlBefore["N4"] = OldFile /\ Len(lvlFiles["N4"].data) = 2

====
